---- MODULE Spec2Model ----
(***************************************************************************)
(* Model of the CloudStack cluster-api provider: the network, public IP,   *)
(* load-balancer and firewall resolvers of pkg/cloud/network.go acting on  *)
(* a CloudStack platform, and the CKS machine membership state machine     *)
(* exercised by controllers/cks_machine_controller_test.go.                *)
(***************************************************************************)
EXTENDS Integers, Sequences, FiniteSets, TLC

VARIABLES
    clusters,   \* cluster id -> CloudStackCluster (its Spec and Status)
    cloud,      \* the CloudStack platform: networks, IPs, rules, ...
    env,        \* what the platform may do: transient faults, visibility lag
    last,       \* the client call that returned last, with what it did
    createLog,  \* every CreateNetwork call issued so far: <<name, ...>>
    pc,         \* cluster id -> position of its running GetOrCreateNetwork
    frame,      \* cluster id -> locals of its running GetOrCreateNetwork
    machine,    \* the CloudStackMachine record in the state store
    cks         \* the CKS/instance calls made for the machine so far

vars == <<clusters, cloud, env, last, createLog, pc, frame, machine, cks>>

----------------------------------------------------------------------------
(* Bounds of the model *)

NumClusters == 2
MaxCreateCalls == 2
MaxPasses == 4

ClusterIds == 1..NumClusters

----------------------------------------------------------------------------
(* Constants of the program *)

NetOffering == "DefaultIsolatedNetworkOfferingWithSourceNatService"
K8sDefaultAPIPort == 6443
NetworkTypeIsolated == "Isolated"
NetworkTypeShared == "Shared"
MachineFinalizer == "cloudstackmachine.infrastructure.cluster.x-k8s.io"

----------------------------------------------------------------------------
(* Errors.  An error is a sequence of causes (a multierror holds several,  *)
(* a plain error one); a cause is the sequence of the text fragments of    *)
(* its message, the wrapping message first.  nil is the empty sequence.    *)

NoErr == <<>>

NewErr(text) == << <<text>> >>

Errorf(fragments) == << fragments >>

Wrapf(err, fragments) == << fragments \o err[1] >>

\* A plausible slip: the error of the later problem replaces the earlier one.
MultiAppendKeepsLast(retErr, err) == err

\* multierror.Append(retErr, err)
MultiAppend(retErr, err) == retErr \o err

\* The substrings the program searches for, as they occur in the texts the
\* platform and the program produce.
Markers(text) ==
    CASE text = "No match found for blah." -> {"No match found"}
      [] text = "There is already a rule like this." -> {"There is already"}
      [] text = "no load balancer rule found" -> {"no load balancer rule found"}
      [] OTHER -> {}

\* strings.Contains(err.Error(), marker): Error() prints every cause in full.
Contains(err, marker) ==
    \E i \in DOMAIN err : \E j \in DOMAIN err[i] : marker \in Markers(err[i][j])

NoMatchErr == NewErr("No match found for blah.")
AlreadyErr == NewErr("There is already a rule like this.")
TimeoutErr == NewErr("timeout")

\* strconv.Itoa: the decimal digits of n, most significant first.
RECURSIVE Itoa(_)
Itoa(n) ==
    IF n < 0 THEN "-" \o Itoa(-n)
    ELSE IF n < 10 THEN ToString(n)
    ELSE Itoa(n \div 10) \o ToString(n % 10)

Call(api, arg) == [api |-> api, arg |-> arg]

CountCalls(calls, api) == Cardinality({i \in DOMAIN calls : calls[i].api = api})

----------------------------------------------------------------------------
(* The CloudStack platform behind the client c.cs *)

NoNet == [id |-> "", name |-> "", type |-> "", visible |-> FALSE]

\* Transient failures of a remote call.
Faults == IF env.faults THEN {TimeoutErr} ELSE {}

\* A created resource is listed at once, unless the platform lags.
Visibility == IF env.lag THEN {TRUE, FALSE} ELSE {TRUE}

NewId(cld) == ToString(cld.nextId)

\* Network.GetNetworkID(keyword): (id, count, err)
RespGetNetworkID(cld, keyword) ==
    LET m == SelectSeq(cld.networks, LAMBDA n : n.name = keyword /\ n.visible)
    IN  {[id |-> "", count |-> -1, err |-> f] : f \in Faults}
        \cup {IF Len(m) = 0
              THEN [id |-> "", count |-> 0, err |-> NoMatchErr]
              ELSE [id |-> m[1].id, count |-> Len(m), err |-> NoErr]}

\* Network.GetNetworkByID(id): (network, count, err)
RespGetNetworkByID(cld, id) ==
    LET m == SelectSeq(cld.networks, LAMBDA n : n.id = id /\ n.visible)
    IN  {[net |-> NoNet, count |-> -1, err |-> f] : f \in Faults}
        \cup {IF Len(m) = 1
              THEN [net |-> m[1], count |-> 1, err |-> NoErr]
              ELSE [net |-> NoNet, count |-> Len(m), err |-> NoMatchErr]}

\* NetworkOffering.GetNetworkOfferingID(NetOffering): (id, count, err)
RespGetNetworkOfferingID(cld) ==
    {[id |-> "", count |-> -1, err |-> f] : f \in Faults}
    \cup {IF cld.offerings = 0
          THEN [id |-> "", count |-> 0, err |-> NoMatchErr]
          ELSE [id |-> "offering1", count |-> cld.offerings, err |-> NoErr]}

\* Network.CreateNetwork(name, ...): the platform after the call, and (Id, Type, err)
RemoteCreateNetwork(cld, name) ==
    {[cloud |-> cld, resp |-> [id |-> "", type |-> "", err |-> f]] : f \in Faults}
    \cup {[cloud |-> [cld EXCEPT
                        !.networks = Append(@, [id |-> NewId(cld), name |-> name,
                                                type |-> NetworkTypeIsolated,
                                                visible |-> v]),
                        !.nextId = @ + 1],
           resp |-> [id |-> NewId(cld), type |-> NetworkTypeIsolated, err |-> NoErr]]
          : v \in Visibility}

\* Firewall.CreateEgressFirewallRule(networkid, "tcp"): err
RemoteCreateEgressFirewallRule(cld, networkid) ==
    {[cloud |-> cld, resp |-> [err |-> f]] : f \in Faults}
    \cup {IF networkid \in cld.fwRules
          THEN [cloud |-> cld, resp |-> [err |-> AlreadyErr]]
          ELSE [cloud |-> [cld EXCEPT !.fwRules = @ \cup {networkid}],
                resp |-> [err |-> NoErr]]}

----------------------------------------------------------------------------
(* pkg/cloud/network.go: the network resolver *)

\* A plausible slip: after a failed lookup by name the ID it returned is kept.
NameLookupOutcomeKeepsID(cl, r) ==
    IF r.err # NoErr
    THEN [networkID |-> r.id,
          retErr |-> MultiAppend(NoErr, Wrapf(r.err,
                        <<"Could not get Network ID from %s.", cl.Spec.Network>>))]
    ELSE IF r.count # 1
    THEN [networkID |-> r.id,
          retErr |-> MultiAppend(NoErr, Errorf(
                        <<"Expected 1 Network with name %s, but got %d.",
                          cl.Spec.Network, Itoa(r.count)>>))]
    ELSE [networkID |-> r.id, retErr |-> NoErr]

\* ResolveNetwork up to the by-ID lookup: the ID to look up and the error so far.
NameLookupOutcome(cl, r) ==
    IF r.err # NoErr
    THEN [networkID |-> cl.Spec.Network,
          retErr |-> MultiAppend(NoErr, Wrapf(r.err,
                        <<"Could not get Network ID from %s.", cl.Spec.Network>>))]
    ELSE IF r.count # 1
    THEN [networkID |-> r.id,
          retErr |-> MultiAppend(NoErr, Errorf(
                        <<"Expected 1 Network with name %s, but got %d.",
                          cl.Spec.Network, Itoa(r.count)>>))]
    ELSE [networkID |-> r.id, retErr |-> NoErr]

\* ResolveNetwork from the by-ID lookup on: the cluster and the error returned.
ByIDOutcome(cl, f, r) ==
    IF r.err # NoErr
    THEN [cluster |-> cl,
          err |-> MultiAppend(f.retErr, Wrapf(r.err,
                        <<"Could not get Network by ID %s.", f.networkID>>))]
    ELSE IF r.count # 1
    THEN [cluster |-> cl,
          err |-> MultiAppend(f.retErr, Errorf(
                        <<"Expected 1 Network with UUID %s, but got %d.",
                          f.networkID, Itoa(r.count)>>))]
    ELSE [cluster |-> [cl EXCEPT !.Status.NetworkID = f.networkID,
                                 !.Status.NetworkType = r.net.type],
          err |-> NoErr]

\* Every run of ResolveNetwork(csCluster) against the platform cld.
ResolveNetwork(cl, cld) ==
    UNION {
        LET f == NameLookupOutcome(cl, r1)
        IN  { LET o == ByIDOutcome(cl, f, r2)
              IN  [cluster |-> o.cluster, cloud |-> cld, err |-> o.err,
                   calls |-> <<Call("GetNetworkID", cl.Spec.Network),
                               Call("GetNetworkByID", f.networkID)>>,
                   resps |-> <<r1, r2>>]
              : r2 \in RespGetNetworkByID(cld, f.networkID) }
        : r1 \in RespGetNetworkID(cld, cl.Spec.Network) }

\* A plausible slip: every error of ResolveNetwork is taken as NotFound.
AfterResolveCreatesOnAnyError(retErr) ==
    IF retErr = NoErr THEN "return" ELSE "create"

\* A plausible slip: every error of ResolveNetwork is returned, NotFound too.
AfterResolveNeverCreates(retErr) == "return"

\* GetOrCreateNetwork after ResolveNetwork returned retErr: return it, or create.
AfterResolve(retErr) ==
    IF retErr = NoErr THEN "return"
    ELSE IF ~Contains(retErr, "No match found") THEN "return"
    ELSE "create"

\* A plausible slip: the number of offerings found is not looked at.
OfferingOutcomeAnyCount(r) ==
    IF r.err # NoErr THEN [create |-> FALSE, err |-> r.err]
    ELSE [create |-> TRUE, err |-> NoErr]

\* GetOrCreateNetwork after the offering lookup: go on to create, or the error.
OfferingOutcome(r) ==
    IF r.err # NoErr THEN [create |-> FALSE, err |-> r.err]
    ELSE IF r.count # 1
    THEN [create |-> FALSE, err |-> NewErr("found more than one network offering.")]
    ELSE [create |-> TRUE, err |-> NoErr]

\* GetOrCreateNetwork after CreateNetwork returned: the cluster and the error.
CreateOutcome(cl, r) ==
    IF r.err # NoErr THEN [cluster |-> cl, err |-> r.err]
    ELSE [cluster |-> [cl EXCEPT !.Status.NetworkID = r.id,
                                 !.Status.NetworkType = r.type],
          err |-> NoErr]

\* The create path of GetOrCreateNetwork, after the run rn of ResolveNetwork.
CreatePath(cl, rn) ==
    UNION {
        LET o == OfferingOutcome(r3)
            calls3 == Append(rn.calls, Call("GetNetworkOfferingID", NetOffering))
        IN  IF ~o.create
            THEN {[cluster |-> cl, cloud |-> rn.cloud, err |-> o.err,
                   calls |-> calls3, resps |-> Append(rn.resps, r3)]}
            ELSE { LET c4 == CreateOutcome(cl, x.resp)
                   IN  [cluster |-> c4.cluster, cloud |-> x.cloud, err |-> c4.err,
                        calls |-> Append(calls3, Call("CreateNetwork", cl.Spec.Network)),
                        resps |-> Append(Append(rn.resps, r3), x.resp)]
                   : x \in RemoteCreateNetwork(rn.cloud, cl.Spec.Network) }
        : r3 \in RespGetNetworkOfferingID(rn.cloud) }

\* Every run of GetOrCreateNetwork(csCluster) against the platform cld.
GetOrCreateNetwork(cl, cld) ==
    UNION { IF AfterResolve(rn.err) = "return" THEN {rn} ELSE CreatePath(cl, rn)
            : rn \in ResolveNetwork(cl, cld) }

\* A plausible slip: every failure of the firewall call is taken as "already there".
FirewallResultAnyError(retErr) == NoErr

\* OpenFirewallRules: what it returns when CreateEgressFirewallRule returned retErr.
FirewallResult(retErr) ==
    IF retErr # NoErr /\ Contains(retErr, "There is already") THEN NoErr ELSE retErr

\* The CreateEgressFirewallRule call with the parameters it is built from.
EgressCall(networkid, protocol) ==
    [api |-> "CreateEgressFirewallRule", arg |-> networkid, protocol |-> protocol]

\* A plausible slip: no call is made when the network has its rule already.
OpenFirewallRulesSkipsExisting(cl, cld) ==
    IF cl.Status.NetworkID \in cld.fwRules
    THEN {[cluster |-> cl, cloud |-> cld, err |-> NoErr, calls |-> <<>>, resps |-> <<>>]}
    ELSE { [cluster |-> cl, cloud |-> x.cloud, err |-> FirewallResult(x.resp.err),
            calls |-> <<EgressCall(cl.Status.NetworkID, "tcp")>>,
            resps |-> <<x.resp>>]
           : x \in RemoteCreateEgressFirewallRule(cld, cl.Status.NetworkID) }

\* Every run of OpenFirewallRules(csCluster) against the platform cld.
OpenFirewallRules(cl, cld) ==
    { [cluster |-> cl, cloud |-> x.cloud, err |-> FirewallResult(x.resp.err),
           calls |-> <<EgressCall(cl.Status.NetworkID, "tcp")>>,
           resps |-> <<x.resp>>]
      : x \in RemoteCreateEgressFirewallRule(cld, cl.Status.NetworkID) }

----------------------------------------------------------------------------
(* The platform's public IP addresses and load-balancer rules *)

NoIp == [id |-> "", ipaddress |-> "", allocated |-> "", associatednetworkid |-> ""]

AllocatedAt == "2022-03-01T10:00:00+0000"

\* Address.ListPublicIpAddresses(p): (Count, PublicIpAddresses, err); the
\* ipaddress filter is set only when the cluster names a host.
RespListPublicIpAddresses(cld, host) ==
    LET m == IF host = "" THEN cld.publicIps
             ELSE SelectSeq(cld.publicIps, LAMBDA a : a.ipaddress = host)
    IN  {[count |-> -1, ips |-> <<>>, err |-> f] : f \in Faults}
        \cup {[count |-> Len(m), ips |-> m, err |-> NoErr]}

\* Address.AssociateIpAddress(networkid, ipaddress): the platform after, and err
RemoteAssociateIpAddress(cld, networkid, ipaddress) ==
    {[cloud |-> cld, resp |-> [err |-> f]] : f \in Faults}
    \cup {[cloud |-> [cld EXCEPT !.publicIps =
                        [i \in DOMAIN @ |->
                            IF @[i].ipaddress = ipaddress
                            THEN [@[i] EXCEPT !.allocated = AllocatedAt,
                                              !.associatednetworkid = networkid]
                            ELSE @[i]]],
           resp |-> [err |-> NoErr]]}

\* LoadBalancer.ListLoadBalancerRules(publicipid): (LoadBalancerRules, err)
RespListLoadBalancerRules(cld, publicipid) ==
    LET m == IF publicipid = "" THEN cld.lbRules
             ELSE SelectSeq(cld.lbRules, LAMBDA r : r.publicipid = publicipid)
    IN  {[rules |-> <<>>, err |-> f] : f \in Faults}
        \cup {[rules |-> m, err |-> NoErr]}

\* LoadBalancer.CreateLoadBalancerRule(..., publicport, publicipid): the
\* platform after, and (Id, err).  The platform prints the port in decimal and
\* refuses a second rule on the same address and port.
RemoteCreateLoadBalancerRule(cld, publicport, publicipid) ==
    {[cloud |-> cld, resp |-> [id |-> "", err |-> f]] : f \in Faults}
    \cup {IF \E i \in DOMAIN cld.lbRules :
                /\ cld.lbRules[i].publicipid = publicipid
                /\ cld.lbRules[i].publicport = Itoa(publicport)
          THEN [cloud |-> cld,
                resp |-> [id |-> "", err |-> NewErr("conflicts with an existing rule")]]
          ELSE [cloud |-> [cld EXCEPT
                             !.lbRules = Append(@, [id |-> NewId(cld),
                                                    publicport |-> Itoa(publicport),
                                                    publicipid |-> publicipid]),
                             !.nextId = @ + 1],
                resp |-> [id |-> NewId(cld), err |-> NoErr]]}

\* LoadBalancer.ListLoadBalancerRuleInstances(ruleid): (instance ids, err)
RespListLoadBalancerRuleInstances(cld, ruleid) ==
    {[instances |-> {}, err |-> f] : f \in Faults}
    \cup {[instances |-> {p[2] : p \in {q \in cld.lbInstances : q[1] = ruleid}},
           err |-> NoErr]}

\* LoadBalancer.AssignToLoadBalancerRule(ruleid, {vm}): the platform after, and
\* err.  The platform knows the rules it holds and no others.
RemoteAssignToLoadBalancerRule(cld, ruleid, vm) ==
    {[cloud |-> cld, resp |-> [err |-> f]] : f \in Faults}
    \cup {IF \E i \in DOMAIN cld.lbRules : cld.lbRules[i].id = ruleid
          THEN [cloud |-> [cld EXCEPT !.lbInstances = @ \cup {<<ruleid, vm>>}],
                resp |-> [err |-> NoErr]]
          ELSE [cloud |-> cld,
                resp |-> [err |-> NewErr("Unable to find the load balancer rule")]]}

----------------------------------------------------------------------------
(* pkg/cloud/network.go: the public IP and load-balancer resolver *)

\* A plausible slip: an empty list is not taken as an error.
ResolvePublicIPDetailsNoEmptyCheck(cl, cld) ==
    { [ip |-> IF r.err = NoErr /\ r.count > 0 THEN r.ips[1] ELSE NoIp,
       err |-> r.err,
       calls |-> <<Call("ListPublicIpAddresses", cl.Spec.ControlPlaneEndpoint.Host)>>,
       resps |-> <<r>>]
      : r \in RespListPublicIpAddresses(cld, cl.Spec.ControlPlaneEndpoint.Host) }

\* Every run of ResolvePublicIPDetails(csCluster): the address found, or the error.
ResolvePublicIPDetails(cl, cld) ==
    { [ip |-> IF r.err = NoErr /\ r.count > 0 THEN r.ips[1] ELSE NoIp,
       err |-> IF r.err # NoErr THEN r.err
               ELSE IF r.count > 0 THEN NoErr
               ELSE NewErr("no public addresses found"),
       calls |-> <<Call("ListPublicIpAddresses", cl.Spec.ControlPlaneEndpoint.Host)>>,
       resps |-> <<r>>]
      : r \in RespListPublicIpAddresses(cld, cl.Spec.ControlPlaneEndpoint.Host) }

\* A plausible slip: the timestamp alone is taken to mean "allocated here".
AlreadyAssociatedByTimestamp(publicAddress, cl) == publicAddress.allocated # ""

\* AssociatePublicIpAddress: is the address already allocated to the network?
AlreadyAssociated(publicAddress, cl) ==
    /\ publicAddress.allocated # ""
    /\ publicAddress.associatednetworkid = cl.Status.NetworkID

\* Every run of AssociatePublicIpAddress(csCluster) against the platform cld.
AssociatePublicIpAddress(cl, cld) ==
    UNION {
        IF rp.err # NoErr
        THEN {[cluster |-> cl, cloud |-> cld, err |-> rp.err,
               calls |-> rp.calls, resps |-> rp.resps]}
        ELSE LET cl2 == [cl EXCEPT !.Spec.ControlPlaneEndpoint.Host = rp.ip.ipaddress,
                                   !.Status.PublicIPID = rp.ip.id]
             IN  IF AlreadyAssociated(rp.ip, cl2)
                 THEN {[cluster |-> cl2, cloud |-> cld, err |-> NoErr,
                        calls |-> rp.calls, resps |-> rp.resps]}
                 ELSE {[cluster |-> cl2, cloud |-> x.cloud, err |-> x.resp.err,
                        calls |-> Append(rp.calls, Call("AssociateIpAddress",
                                            cl2.Spec.ControlPlaneEndpoint.Host)),
                        resps |-> Append(rp.resps, x.resp)]
                       : x \in RemoteAssociateIpAddress(cld, cl2.Status.NetworkID,
                                            cl2.Spec.ControlPlaneEndpoint.Host)}
        : rp \in ResolvePublicIPDetails(cl, cld) }

\* A plausible slip: the rule's port is not compared at all.
RuleMatchesAnyPort(rule, cl) == TRUE

\* Does the listed rule serve the cluster's control-plane port?
RuleMatches(rule, cl) == rule.publicport = Itoa(cl.Spec.ControlPlaneEndpoint.Port)

\* The loop of ResolveLoadBalancerRuleDetails: the first matching rule, 0 if none.
FirstMatchingRule(rules, cl) ==
    IF \E i \in DOMAIN rules : RuleMatches(rules[i], cl)
    THEN CHOOSE i \in DOMAIN rules :
            /\ RuleMatches(rules[i], cl)
            /\ \A j \in 1..(i - 1) : ~RuleMatches(rules[j], cl)
    ELSE 0

\* Every run of ResolveLoadBalancerRuleDetails(csCluster) against the platform cld.
ResolveLoadBalancerRuleDetails(cl, cld) ==
    { LET i == IF r.err = NoErr THEN FirstMatchingRule(r.rules, cl) ELSE 0
      IN  [cluster |-> IF i > 0 THEN [cl EXCEPT !.Status.LBRuleID = r.rules[i].id]
                       ELSE cl,
           cloud |-> cld,
           err |-> IF r.err # NoErr THEN r.err
                   ELSE IF i > 0 THEN NoErr
                   ELSE NewErr("no load balancer rule found"),
           calls |-> <<Call("ListLoadBalancerRules", cl.Status.PublicIPID)>>,
           resps |-> <<r>>]
      : r \in RespListLoadBalancerRules(cld, cl.Status.PublicIPID) }

\* A plausible slip: every failure of the resolve is taken as "no rule found".
AfterResolveRuleAnyError(err) == IF err = NoErr THEN "return" ELSE "create"

\* GetOrCreateLoadBalancerRule after the resolve returned err: return it, or create.
AfterResolveRule(err) ==
    IF err = NoErr \/ ~Contains(err, "no load balancer rule found")
    THEN "return" ELSE "create"

\* The public port of the rule GetOrCreateLoadBalancerRule creates.
PublicPort(cl) ==
    IF cl.Spec.ControlPlaneEndpoint.Port # 0
    THEN cl.Spec.ControlPlaneEndpoint.Port ELSE K8sDefaultAPIPort

\* Every run of GetOrCreateLoadBalancerRule(csCluster) against the platform cld.
GetOrCreateLoadBalancerRule(cl, cld) ==
    UNION {
        IF AfterResolveRule(rr.err) = "return" THEN {rr}
        ELSE {[cluster |-> IF x.resp.err = NoErr
                           THEN [cl EXCEPT !.Status.LBRuleID = x.resp.id] ELSE cl,
               cloud |-> x.cloud, err |-> x.resp.err,
               calls |-> Append(rr.calls, Call("CreateLoadBalancerRule",
                                               Itoa(PublicPort(cl)))),
               resps |-> Append(rr.resps, x.resp)]
              : x \in RemoteCreateLoadBalancerRule(cld, PublicPort(cl),
                                                   cl.Status.PublicIPID)}
        : rr \in ResolveLoadBalancerRuleDetails(cl, cld) }

\* A plausible slip: the listed instances are not looked at.
AlreadyAssignedNever(instances, instanceID) == FALSE

\* AssignVMToLoadBalancerRule: is the instance among the rule's instances?
AlreadyAssigned(instances, instanceID) == \E id \in instances : id = instanceID

\* A plausible slip: a failed list of the rule's instances is taken as an
\* empty one.
AssignVMToLoadBalancerRuleIgnoresListError(cl, instanceID, cld) ==
    UNION {
        LET calls1 == <<Call("ListLoadBalancerRuleInstances", cl.Status.LBRuleID)>>
        IN  IF r.err = NoErr /\ AlreadyAssigned(r.instances, instanceID)
            THEN {[cluster |-> cl, cloud |-> cld, err |-> NoErr,
                   calls |-> calls1, resps |-> <<r>>]}
            ELSE {[cluster |-> cl, cloud |-> x.cloud, err |-> x.resp.err,
                   calls |-> Append(calls1, Call("AssignToLoadBalancerRule", instanceID)),
                   resps |-> <<r, x.resp>>]
                  : x \in RemoteAssignToLoadBalancerRule(cld, cl.Status.LBRuleID,
                                                         instanceID)}
        : r \in RespListLoadBalancerRuleInstances(cld, cl.Status.LBRuleID) }

\* Every run of AssignVMToLoadBalancerRule(csCluster, instanceID) against cld.
AssignVMToLoadBalancerRule(cl, instanceID, cld) ==
    UNION {
        LET calls1 == <<Call("ListLoadBalancerRuleInstances", cl.Status.LBRuleID)>>
        IN  IF r.err # NoErr
            THEN {[cluster |-> cl, cloud |-> cld, err |-> r.err,
                   calls |-> calls1, resps |-> <<r>>]}
            ELSE IF AlreadyAssigned(r.instances, instanceID)
            THEN {[cluster |-> cl, cloud |-> cld, err |-> NoErr,
                   calls |-> calls1, resps |-> <<r>>]}
            ELSE {[cluster |-> cl, cloud |-> x.cloud, err |-> x.resp.err,
                   calls |-> Append(calls1, Call("AssignToLoadBalancerRule", instanceID)),
                   resps |-> <<r, x.resp>>]
                  : x \in RemoteAssignToLoadBalancerRule(cld, cl.Status.LBRuleID,
                                                         instanceID)}
        : r \in RespListLoadBalancerRuleInstances(cld, cl.Status.LBRuleID) }

----------------------------------------------------------------------------
(* The objects a behaviour starts from *)

\* A CloudStackCluster as its owner creates it: a Spec and an empty Status.
NewCluster(network, host, port) ==
    [Spec |-> [Network |-> network,
               ControlPlaneEndpoint |-> [Host |-> host, Port |-> port]],
     Status |-> [NetworkID |-> "", NetworkType |-> "",
                 PublicIPID |-> "", LBRuleID |-> ""]]

EmptyCloud ==
    [networks |-> <<>>, offerings |-> 1, publicIps |-> <<>>, lbRules |-> <<>>,
     lbInstances |-> {}, fwRules |-> {}, nextId |-> 1]

NoLast ==
    [op |-> "none", c |-> 0, arg |-> "", pre |-> NewCluster("", "", 0),
     err |-> NoErr, calls |-> <<>>, resps |-> <<>>,
     prevOp |-> "none", prevErr |-> NoErr]

NoFrame == [networkID |-> "", retErr |-> NoErr]

NoMachine ==
    [exists |-> FALSE, deletionRequested |-> FALSE, finalizers |-> {},
     instanceState |-> "", ready |-> FALSE, syncWithACS |-> FALSE]

\* No pass has run and no call was made for the machine.
NoCks == [passes |-> 0, log |-> <<>>]

\* Networks the platform may hold before the first pass: none, the cluster's
\* network, or two networks of the same name.
NetA1 == [id |-> "id1", name |-> "netA", type |-> NetworkTypeIsolated, visible |-> TRUE]
NetA2 == [id |-> "id2", name |-> "netA", type |-> NetworkTypeShared, visible |-> TRUE]
InitNetworks == {<<>>, <<NetA1>>, <<NetA1, NetA2>>}

\* Spec.Network holds the network's name, or its ID.
InitNetworkNames == {"netA", "id1"}

NoClusterWork ==
    /\ pc = [c \in ClusterIds |-> "idle"]
    /\ frame = [c \in ClusterIds |-> NoFrame]

NoMachineWork ==
    /\ machine = NoMachine
    /\ cks = NoCks

----------------------------------------------------------------------------
(* One client call per step, on cluster 1, against a platform that may fail *)

\* The call op(arg) on cluster c returned with the run `run`.
Returned(op, c, arg, run) ==
    /\ clusters' = [clusters EXCEPT ![c] = run.cluster]
    /\ cloud' = run.cloud
    /\ last' = [op |-> op, c |-> c, arg |-> arg, pre |-> clusters[c],
                err |-> run.err, calls |-> run.calls, resps |-> run.resps,
                prevOp |-> last.op, prevErr |-> last.err]
    /\ createLog' = createLog \o SelectSeq(run.calls, LAMBDA k : k.api = "CreateNetwork")
    /\ UNCHANGED <<env, pc, frame, machine, cks>>

ResolveNetworkCall ==
    \E run \in ResolveNetwork(clusters[1], cloud) :
        Returned("ResolveNetwork", 1, "", run)

GetOrCreateNetworkCall ==
    /\ Len(createLog) < MaxCreateCalls
    /\ \E run \in GetOrCreateNetwork(clusters[1], cloud) :
        Returned("GetOrCreateNetwork", 1, "", run)

OpenFirewallRulesCall ==
    \E run \in OpenFirewallRules(clusters[1], cloud) :
        Returned("OpenFirewallRules", 1, "", run)

Init ==
    /\ \E nets \in InitNetworks, off \in 0..2, name \in InitNetworkNames :
        /\ clusters = [c \in ClusterIds |-> NewCluster(name, "", K8sDefaultAPIPort)]
        /\ cloud = [EmptyCloud EXCEPT !.networks = nets, !.offerings = off]
    /\ env = [faults |-> TRUE, lag |-> FALSE]
    /\ last = NoLast
    /\ createLog = <<>>
    /\ NoClusterWork
    /\ NoMachineWork

Next ==
    \/ ResolveNetworkCall
    \/ GetOrCreateNetworkCall
    \/ OpenFirewallRulesCall

Spec == Init /\ [][Next]_vars

----------------------------------------------------------------------------
(* The network resolver and the firewall opener, call by call *)

StatusOf(c) == clusters[c].Status

\* The lookups of the call that returned last reported exactly one network:
\* one match by name, or none by name and one by ID.
ReportedFound ==
    /\ Len(last.resps) >= 2
    /\ last.resps[2].err = NoErr /\ last.resps[2].count = 1
    /\ last.resps[1].err # NoErr \/ last.resps[1].count = 1

\* GetOrCreateNetwork returned, right after an earlier GetOrCreateNetwork on
\* the same cluster had returned nil.
SecondGetOrCreateNetwork ==
    /\ last.op = "GetOrCreateNetwork"
    /\ last.prevOp = "GetOrCreateNetwork" /\ last.prevErr = NoErr

\* C3 (as claimed): when GetOrCreateNetwork is called a second time with the same cluster
\* specification and the platform's lookups report the network as found (one
\* match), the second call issues no CreateNetwork call, returns nil and leaves
\* Status.NetworkID and Status.NetworkType as the first call recorded them.
C3_SecondCallKeepsNetwork ==
    (SecondGetOrCreateNetwork /\ ReportedFound) =>
        /\ CountCalls(last.calls, "CreateNetwork") = 0
        /\ last.err = NoErr
        /\ StatusOf(last.c).NetworkID = last.pre.Status.NetworkID
        /\ StatusOf(last.c).NetworkType = last.pre.Status.NetworkType

\* C4 (as claimed): when the lookup by name returns a count of 2,
\* ResolveNetwork returns an error and writes no status field, whatever the
\* lookup by ID returns.
C4_AmbiguityIsFatal ==
    (/\ last.op = "ResolveNetwork"
     /\ last.resps[1].err = NoErr /\ last.resps[1].count = 2) =>
        /\ last.err # NoErr
        /\ StatusOf(last.c) = last.pre.Status

\* C6: OpenFirewallRules returns nil when CreateEgressFirewallRule succeeds or
\* fails with a text containing "There is already", and returns every other
\* error as it received it.
C6_FirewallDowngrade ==
    last.op = "OpenFirewallRules" =>
        LET e == last.resps[1].err
        IN  /\ e = NoErr => last.err = NoErr
            /\ e = AlreadyErr => last.err = NoErr
            /\ e \notin {NoErr, AlreadyErr} => (last.err = e /\ e # NoErr)

\* The rule was there already, and the call succeeded all the same.
C6_Witness ==
    /\ last.op = "OpenFirewallRules"
    /\ last.pre.Status.NetworkID # ""
    /\ last.resps[1].err = AlreadyErr
    /\ last.err = NoErr

\* C31: every invocation of OpenFirewallRules issues exactly one
\* CreateEgressFirewallRule call, for protocol tcp on Status.NetworkID, also
\* when the network has its rule already, and changes no spec or status
\* field of the cluster, whatever the call returned.
C31_OneEgressCallNoWrite ==
    last.op = "OpenFirewallRules" =>
        /\ last.calls = <<EgressCall(last.pre.Status.NetworkID, "tcp")>>
        /\ Len(last.resps) = 1
        /\ clusters[last.c].Spec = last.pre.Spec
        /\ clusters[last.c].Status = last.pre.Status

\* A second invocation found the rule the first one created, and called again.
C31_Witness ==
    /\ last.op = "OpenFirewallRules"
    /\ last.prevOp = "OpenFirewallRules" /\ last.prevErr = NoErr
    /\ last.pre.Status.NetworkID # ""
    /\ last.pre.Status.NetworkID \in cloud.fwRules
    /\ last.resps[1].err = AlreadyErr
    /\ Len(last.calls) = 1
    /\ clusters[last.c] = last.pre

\* C19: when the lookup by name and the lookup by ID both report "No match
\* found", GetOrCreateNetwork does not return that error: it looks up the
\* default network offering and, given exactly one, issues exactly one
\* CreateNetwork call; when that succeeds it records the returned ID and type
\* in the status and returns nil.
C19_NotFoundCreates ==
    (/\ last.op = "GetOrCreateNetwork"
     /\ last.resps[1].err = NoMatchErr /\ last.resps[2].err = NoMatchErr) =>
        /\ Len(last.calls) >= 3
        /\ last.calls[3] = Call("GetNetworkOfferingID", NetOffering)
        /\ (last.resps[3].err = NoErr /\ last.resps[3].count = 1) =>
              /\ Len(last.calls) = 4
              /\ CountCalls(last.calls, "CreateNetwork") = 1
              /\ last.calls[4] = Call("CreateNetwork", last.pre.Spec.Network)
              /\ last.resps[4].err = NoErr =>
                    /\ last.err = NoErr
                    /\ StatusOf(last.c).NetworkID = last.resps[4].id
                    /\ StatusOf(last.c).NetworkType = last.resps[4].type

\* No network was found, one was created and recorded.
C19_Witness ==
    /\ last.op = "GetOrCreateNetwork"
    /\ last.resps[1].err = NoMatchErr /\ last.resps[2].err = NoMatchErr
    /\ Len(last.calls) = 4 /\ last.err = NoErr
    /\ last.pre.Status.NetworkID = ""
    /\ StatusOf(last.c).NetworkID = "1"
    /\ StatusOf(last.c).NetworkType = NetworkTypeIsolated

\* The platform holds exactly one network whose ID is id.
HoldsOneWithID(id) ==
    Cardinality({i \in DOMAIN cloud.networks :
                    cloud.networks[i].id = id /\ cloud.networks[i].visible}) = 1

\* C20: when the lookup by name fails and the platform, asked by ID for the
\* configured network value, has exactly one such network and answers,
\* ResolveNetwork and GetOrCreateNetwork look that value up by ID, return
\* nil, record the value as Status.NetworkID with the found network's type,
\* and issue no further call, so no CreateNetwork call.
C20_ResolvesByID ==
    (/\ last.op \in {"ResolveNetwork", "GetOrCreateNetwork"}
     /\ last.resps[1].err # NoErr
     /\ last.resps[2].err \notin Faults
     /\ HoldsOneWithID(last.pre.Spec.Network)) =>
        /\ last.calls[2] = Call("GetNetworkByID", last.pre.Spec.Network)
        /\ last.resps[2].err = NoErr /\ last.resps[2].count = 1
        /\ last.err = NoErr
        /\ StatusOf(last.c).NetworkID = last.pre.Spec.Network
        /\ StatusOf(last.c).NetworkType = last.resps[2].net.type
        /\ Len(last.calls) = 2
        /\ CountCalls(last.calls, "CreateNetwork") = 0

\* Spec.Network holds an ID: the name lookup found nothing, the ID lookup did.
C20_Witness ==
    /\ last.op = "GetOrCreateNetwork"
    /\ last.pre.Spec.Network = NetA1.id /\ last.pre.Status.NetworkID = ""
    /\ last.resps[1].err = NoMatchErr
    /\ last.resps[2].err = NoErr
    /\ last.err = NoErr
    /\ StatusOf(last.c).NetworkID = NetA1.id

\* C21: in the create path of GetOrCreateNetwork, when the lookup of the
\* default network offering fails or reports a count other than one, the
\* operation returns an error, issues no CreateNetwork call and leaves
\* Status.NetworkID and Status.NetworkType as they were.
C21_OfferingMustBeOne ==
    (/\ last.op = "GetOrCreateNetwork" /\ Len(last.calls) >= 3
     /\ last.resps[3].err # NoErr \/ last.resps[3].count # 1) =>
        /\ last.err # NoErr
        /\ last.resps[3].err # NoErr => last.err = last.resps[3].err
        /\ Len(last.calls) = 3
        /\ CountCalls(last.calls, "CreateNetwork") = 0
        /\ StatusOf(last.c).NetworkID = last.pre.Status.NetworkID
        /\ StatusOf(last.c).NetworkType = last.pre.Status.NetworkType

\* The platform holds two offerings of the default name: nothing is created.
C21_Witness ==
    /\ last.op = "GetOrCreateNetwork" /\ Len(last.calls) = 3
    /\ last.resps[3].err = NoErr /\ last.resps[3].count = 2
    /\ last.err = NewErr("found more than one network offering.")
    /\ cloud.networks = <<>>

\* C22 (as claimed): whenever the lookup by name reports more than one
\* match, GetOrCreateNetwork returns an error, issues no CreateNetwork call
\* and resolves nothing, whatever the lookup by ID returns.
C22_AmbiguityNeverResolved ==
    (/\ last.op = "GetOrCreateNetwork"
     /\ last.resps[1].err = NoErr /\ last.resps[1].count > 1) =>
        /\ last.err # NoErr
        /\ CountCalls(last.calls, "CreateNetwork") = 0
        /\ StatusOf(last.c) = last.pre.Status

\* The identity fields of the cluster status.
IdentityFields == {"NetworkID", "PublicIPID", "LBRuleID"}

\* In this step no identity field that was set gets a different value.
IdentityKept ==
    \A c \in ClusterIds : \A f \in IdentityFields :
        clusters[c].Status[f] # "" => clusters'[c].Status[f] = clusters[c].Status[f]

\* C12 (as claimed): over any sequence of passes for a cluster, an identity
\* field of its status (NetworkID, PublicIPID, LBRuleID) that holds a
\* non-empty value is never overwritten with a different value.
C12_IdentityNeverOverwritten == [][IdentityKept]_vars

\* Both lookups of the ResolveNetwork call that returned last had a problem.
BothLookupsFailed ==
    /\ last.op = "ResolveNetwork"
    /\ last.resps[1].err # NoErr \/ last.resps[1].count # 1
    /\ last.resps[2].err # NoErr \/ last.resps[2].count # 1

\* The cause the name lookup of the last call is reported with.
NameCause ==
    IF last.resps[1].err # NoErr
    THEN <<"Could not get Network ID from %s.", last.pre.Spec.Network>>
            \o last.resps[1].err[1]
    ELSE <<"Expected 1 Network with name %s, but got %d.", last.pre.Spec.Network,
           Itoa(last.resps[1].count)>>

\* The cause the by-ID lookup of the last call is reported with.
ByIDCause ==
    IF last.resps[2].err # NoErr
    THEN <<"Could not get Network by ID %s.", last.calls[2].arg>>
            \o last.resps[2].err[1]
    ELSE <<"Expected 1 Network with UUID %s, but got %d.", last.calls[2].arg,
           Itoa(last.resps[2].count)>>

\* C25: when both the lookup by name and the following lookup by ID of
\* ResolveNetwork fail (or report a count other than one), the returned error
\* is an aggregate of exactly the two causes, the name-lookup problem first and
\* the by-ID problem second, and no status field is written.
C25_BothCausesReported ==
    BothLookupsFailed =>
        /\ last.err = <<NameCause, ByIDCause>>
        /\ StatusOf(last.c) = last.pre.Status

\* Two networks bear the name and the by-ID lookup timed out: two causes.
C25_Witness ==
    /\ BothLookupsFailed
    /\ last.resps[1].err = NoErr /\ last.resps[1].count = 2
    /\ last.resps[2].err = TimeoutErr
    /\ Len(last.err) = 2

\* ResolveNetwork, called by the GetOrCreateNetwork call that returned last,
\* failed, and no cause of its error is a NotFound condition.
ResolveFailedOtherwise ==
    /\ last.op = "GetOrCreateNetwork"
    /\ last.resps[2].err # NoErr
    /\ ~Contains(last.resps[1].err, "No match found")
    /\ ~Contains(last.resps[2].err, "No match found")

\* C26: when ResolveNetwork fails with an error whose text does not contain
\* "No match found", GetOrCreateNetwork returns that error, issues no
\* network-offering lookup and no CreateNetwork call, and leaves the status
\* as it was.
C26_OtherErrorSurfaced ==
    ResolveFailedOtherwise =>
        /\ last.err # NoErr
        /\ last.err[Len(last.err)] = ByIDCause
        /\ Len(last.calls) = 2
        /\ CountCalls(last.calls, "GetNetworkOfferingID") = 0
        /\ CountCalls(last.calls, "CreateNetwork") = 0
        /\ StatusOf(last.c) = last.pre.Status

\* The name was found once and the by-ID lookup timed out: the timeout is
\* returned after the two lookups.
C26_Witness ==
    /\ ResolveFailedOtherwise
    /\ last.resps[1].err = NoErr /\ last.resps[1].count = 1
    /\ last.resps[2].err = TimeoutErr
    /\ last.err = <<ByIDCause>>
    /\ Len(last.calls) = 2

----------------------------------------------------------------------------
(* The network resolver against an eventually consistent platform: a created *)
(* network may be listed only some time after CreateNetwork returned.        *)

\* The platform starts listing a network it holds.
NetworkBecomesVisible ==
    /\ \E i \in DOMAIN cloud.networks :
        /\ ~cloud.networks[i].visible
        /\ cloud' = [cloud EXCEPT !.networks[i].visible = TRUE]
    /\ UNCHANGED <<clusters, env, last, createLog, pc, frame, machine, cks>>

LagInit ==
    /\ \E nets \in InitNetworks, name \in InitNetworkNames :
        /\ clusters = [c \in ClusterIds |-> NewCluster(name, "", K8sDefaultAPIPort)]
        /\ cloud = [EmptyCloud EXCEPT !.networks = nets]
    /\ env = [faults |-> FALSE, lag |-> TRUE]
    /\ last = NoLast
    /\ createLog = <<>>
    /\ NoClusterWork
    /\ NoMachineWork

LagNext ==
    \/ ResolveNetworkCall
    \/ GetOrCreateNetworkCall
    \/ OpenFirewallRulesCall
    \/ NetworkBecomesVisible

LagSpec == LagInit /\ [][LagNext]_vars

\* The platform holds the network the status names, listed or not.
HoldsRecordedNetwork ==
    /\ last.pre.Status.NetworkID # ""
    /\ \E i \in DOMAIN cloud.networks : cloud.networks[i].id = last.pre.Status.NetworkID

\* C23 (as claimed): a GetOrCreateNetwork pass that runs after an earlier
\* pass created the network, while the lookups do not list it yet, returns an
\* error (to be retried) and issues no CreateNetwork call; and over any
\* sequence of passes for the cluster at most one CreateNetwork call is made.
C23_NoSecondCreateUnderLag ==
    /\ (/\ last.op = "GetOrCreateNetwork" /\ HoldsRecordedNetwork
        /\ last.resps[1].err = NoMatchErr /\ last.resps[2].err = NoMatchErr) =>
            /\ last.err # NoErr
            /\ CountCalls(last.calls, "CreateNetwork") = 0
    /\ Len(createLog) <= 1

----------------------------------------------------------------------------
(* The public IP and load-balancer resolver, call by call *)

AllocatedIn(networkid) ==
    [id |-> "ip1", ipaddress |-> "10.0.0.1", allocated |-> AllocatedAt,
     associatednetworkid |-> networkid]
FreeIp1 == [NoIp EXCEPT !.id = "ip1", !.ipaddress = "10.0.0.1"]
FreeIp2 == [NoIp EXCEPT !.id = "ip2", !.ipaddress = "10.0.0.2"]

\* Public addresses the platform may hold: none; one that is free, allocated
\* to the cluster's network or allocated to another network; and a second one.
InitPublicIps ==
    {<<>>} \cup {<<a>> : a \in {FreeIp1, AllocatedIn("id1"), AllocatedIn("id2")}}
           \cup {<<a, FreeIp2>> : a \in {FreeIp1, AllocatedIn("id2")}}

Rule6443 == [id |-> "lb6443", publicport |-> "6443", publicipid |-> "ip1"]
Rule7443 == [id |-> "lb7443", publicport |-> "7443", publicipid |-> "ip1"]
InitLbRules == {<<>>, <<Rule7443>>, <<Rule7443, Rule6443>>}

InitPorts == {0, K8sDefaultAPIPort}

Instances == {"vm1", "vm2"}

AssociatePublicIpAddressCall ==
    \E run \in AssociatePublicIpAddress(clusters[1], cloud) :
        Returned("AssociatePublicIpAddress", 1, "", run)

ResolveLoadBalancerRuleDetailsCall ==
    \E run \in ResolveLoadBalancerRuleDetails(clusters[1], cloud) :
        Returned("ResolveLoadBalancerRuleDetails", 1, "", run)

GetOrCreateLoadBalancerRuleCall ==
    \E run \in GetOrCreateLoadBalancerRule(clusters[1], cloud) :
        Returned("GetOrCreateLoadBalancerRule", 1, "", run)

AssignVMToLoadBalancerRuleCall ==
    \E vm \in Instances :
        \E run \in AssignVMToLoadBalancerRule(clusters[1], vm, cloud) :
            Returned("AssignVMToLoadBalancerRule", 1, vm, run)

\* The cluster's network is resolved already (NetA1); addresses and rules vary.
LbInit ==
    /\ \E ips \in InitPublicIps, rules \in InitLbRules, port \in InitPorts :
        /\ clusters = [c \in ClusterIds |->
                        [NewCluster("netA", "", port) EXCEPT
                            !.Status.NetworkID = NetA1.id,
                            !.Status.NetworkType = NetA1.type]]
        /\ cloud = [EmptyCloud EXCEPT !.networks = <<NetA1, NetA2>>,
                                      !.publicIps = ips, !.lbRules = rules]
    /\ env = [faults |-> TRUE, lag |-> FALSE]
    /\ last = NoLast
    /\ createLog = <<>>
    /\ NoClusterWork
    /\ NoMachineWork

LbNext ==
    \/ AssociatePublicIpAddressCall
    \/ ResolveLoadBalancerRuleDetailsCall
    \/ GetOrCreateLoadBalancerRuleCall
    \/ AssignVMToLoadBalancerRuleCall

LbSpec == LbInit /\ [][LbNext]_vars

----------------------------------------------------------------------------
(* Claims on the public IP and load-balancer resolver *)

\* The address ResolvePublicIPDetails handed to the call that returned last.
ResolvedIp == last.resps[1].ips[1]

AssociateReturned ==
    /\ last.op = "AssociatePublicIpAddress"
    /\ last.resps[1].err = NoErr /\ last.resps[1].count > 0

\* C5: AssociatePublicIpAddress issues exactly one AssociateIpAddress call
\* when the resolved address has an empty allocation timestamp, none when it
\* has a timestamp and its associated network is Status.NetworkID, and one
\* when it has a timestamp but is associated with a different network.
C5_AssociateCalls ==
    AssociateReturned =>
        LET n == CountCalls(last.calls, "AssociateIpAddress")
            here == ResolvedIp.associatednetworkid = StatusOf(last.c).NetworkID
        IN  /\ ResolvedIp.allocated = "" => n = 1
            /\ (ResolvedIp.allocated # "" /\ here) => n = 0
            /\ (ResolvedIp.allocated # "" /\ ~here) => n = 1

\* An address allocated to another network was associated by the call.
C5_Witness ==
    /\ AssociateReturned
    /\ ResolvedIp.allocated # ""
    /\ ResolvedIp.associatednetworkid # StatusOf(last.c).NetworkID
    /\ CountCalls(last.calls, "AssociateIpAddress") = 1
    /\ last.err = NoErr

\* The decimal form of the control-plane ports in use.
DecimalForm(port) ==
    CASE port = 0 -> "0" [] port = 6443 -> "6443" [] port = 7443 -> "7443"

\* The rules of the list that serve the port the last call's cluster asks for.
ListedMatches ==
    {i \in DOMAIN last.resps[1].rules :
        last.resps[1].rules[i].publicport
            = DecimalForm(last.pre.Spec.ControlPlaneEndpoint.Port)}

\* C7: ResolveLoadBalancerRuleDetails records in Status.LBRuleID the identity
\* of a listed rule whose public port string is the decimal form of the
\* desired port, never that of a rule with another port; when no listed rule
\* matches it returns "no load balancer rule found" and leaves LBRuleID as it was.
C7_RuleByPort ==
    (last.op = "ResolveLoadBalancerRuleDetails" /\ last.resps[1].err = NoErr) =>
        IF ListedMatches # {}
        THEN /\ last.err = NoErr
             /\ \E i \in ListedMatches :
                    StatusOf(last.c).LBRuleID = last.resps[1].rules[i].id
        ELSE /\ last.err = NewErr("no load balancer rule found")
             /\ StatusOf(last.c).LBRuleID = last.pre.Status.LBRuleID

\* The "7443" rule was listed first and the "6443" rule was recorded.
C7_Witness ==
    /\ last.op = "ResolveLoadBalancerRuleDetails"
    /\ last.resps[1].err = NoErr
    /\ last.resps[1].rules = <<Rule7443, Rule6443>>
    /\ last.pre.Spec.ControlPlaneEndpoint.Port = 6443
    /\ StatusOf(last.c).LBRuleID = Rule6443.id

\* C8: AssignVMToLoadBalancerRule issues no AssignToLoadBalancerRule call
\* when the instance is among the rule's listed instances, and exactly one,
\* for that instance, when it is not.
C8_AssignOnce ==
    (last.op = "AssignVMToLoadBalancerRule" /\ last.resps[1].err = NoErr) =>
        IF last.arg \in last.resps[1].instances
        THEN CountCalls(last.calls, "AssignToLoadBalancerRule") = 0 /\ last.err = NoErr
        ELSE /\ CountCalls(last.calls, "AssignToLoadBalancerRule") = 1
             /\ last.calls[2] = Call("AssignToLoadBalancerRule", last.arg)

\* A second call, finding the instance an earlier call assigned, assigns nothing.
C8_Witness ==
    /\ last.op = "AssignVMToLoadBalancerRule"
    /\ last.prevOp = "AssignVMToLoadBalancerRule" /\ last.prevErr = NoErr
    /\ last.resps[1].err = NoErr
    /\ last.resps[1].instances = {last.arg}
    /\ Len(last.calls) = 1

\* C9: GetOrCreateLoadBalancerRule resolves first.  A listed rule with the
\* desired port: no create call, and LBRuleID is that rule's identity.  No
\* such rule: exactly one CreateLoadBalancerRule call, and LBRuleID is the
\* identity the platform returned for the created rule.  The list call
\* failed: that error is returned, and no create call is issued.
C9_GetOrCreateRule ==
    last.op = "GetOrCreateLoadBalancerRule" =>
        LET n == CountCalls(last.calls, "CreateLoadBalancerRule")
        IN  IF last.resps[1].err # NoErr
            THEN n = 0 /\ last.err = last.resps[1].err
            ELSE IF ListedMatches # {}
            THEN /\ n = 0 /\ last.err = NoErr
                 /\ \E i \in ListedMatches :
                        StatusOf(last.c).LBRuleID = last.resps[1].rules[i].id
            ELSE /\ n = 1
                 /\ last.resps[2].err = NoErr =>
                        /\ last.err = NoErr
                        /\ StatusOf(last.c).LBRuleID = last.resps[2].id
                        /\ \E i \in DOMAIN cloud.lbRules :
                              cloud.lbRules[i].id = last.resps[2].id

\* Only a "7443" rule was listed: a rule was created and recorded.
C9_Witness ==
    /\ last.op = "GetOrCreateLoadBalancerRule"
    /\ last.resps[1].err = NoErr
    /\ last.resps[1].rules = <<Rule7443>>
    /\ CountCalls(last.calls, "CreateLoadBalancerRule") = 1
    /\ last.err = NoErr
    /\ StatusOf(last.c).LBRuleID = last.resps[2].id

\* The rule Status.LBRuleID named before the last call is among those listed.
RecordedRuleListed ==
    /\ last.pre.Status.LBRuleID # ""
    /\ last.resps[1].err = NoErr
    /\ \E i \in DOMAIN last.resps[1].rules :
          last.resps[1].rules[i].id = last.pre.Status.LBRuleID

\* C24 (as claimed): GetOrCreateLoadBalancerRule converges for every port
\* value, port 0 included: a call against a platform that lists the rule an
\* earlier call recorded issues no CreateLoadBalancerRule call, leaves
\* Status.LBRuleID unchanged and returns no error.
C24_RuleConverges ==
    (last.op = "GetOrCreateLoadBalancerRule" /\ RecordedRuleListed) =>
        /\ CountCalls(last.calls, "CreateLoadBalancerRule") = 0
        /\ StatusOf(last.c).LBRuleID = last.pre.Status.LBRuleID
        /\ last.err = NoErr

\* C29: when the ListPublicIpAddresses call fails or returns no address,
\* AssociatePublicIpAddress returns an error (the call's error, or "no public
\* addresses found" for the empty list), issues no AssociateIpAddress call,
\* and leaves Status.PublicIPID and the control-plane endpoint host unchanged.
C29_NoAddressNoAssociate ==
    (/\ last.op = "AssociatePublicIpAddress"
     /\ last.resps[1].err # NoErr \/ last.resps[1].count = 0) =>
        /\ last.err = IF last.resps[1].err # NoErr THEN last.resps[1].err
                      ELSE NewErr("no public addresses found")
        /\ Len(last.calls) = 1
        /\ CountCalls(last.calls, "AssociateIpAddress") = 0
        /\ StatusOf(last.c).PublicIPID = last.pre.Status.PublicIPID
        /\ clusters[last.c].Spec.ControlPlaneEndpoint.Host
              = last.pre.Spec.ControlPlaneEndpoint.Host

\* The platform listed no address: "no public addresses found".
C29_Witness ==
    /\ last.op = "AssociatePublicIpAddress"
    /\ last.resps[1].err = NoErr /\ last.resps[1].count = 0
    /\ last.err = NewErr("no public addresses found")
    /\ StatusOf(last.c).PublicIPID = ""

\* C30: when the ListLoadBalancerRuleInstances call fails,
\* AssignVMToLoadBalancerRule returns that error and issues no
\* AssignToLoadBalancerRule call.
C30_ListFailureNoAssign ==
    (last.op = "AssignVMToLoadBalancerRule" /\ last.resps[1].err # NoErr) =>
        /\ last.err = last.resps[1].err
        /\ Len(last.calls) = 1
        /\ CountCalls(last.calls, "AssignToLoadBalancerRule") = 0

\* The list of instances timed out for a rule the cluster has recorded.
C30_Witness ==
    /\ last.op = "AssignVMToLoadBalancerRule"
    /\ last.pre.Status.LBRuleID # ""
    /\ last.resps[1].err = TimeoutErr
    /\ last.err = TimeoutErr
    /\ last.calls = <<Call("ListLoadBalancerRuleInstances", last.pre.Status.LBRuleID)>>

\* The resolver operations that record what they found or created.
ResolverOps ==
    {"GetOrCreateNetwork", "AssociatePublicIpAddress", "GetOrCreateLoadBalancerRule"}

\* C11 (as claimed): a resolver operation that returns an error has written
\* nothing to the cluster; in particular, when the AssociateIpAddress call
\* fails, Status.PublicIPID and the control-plane endpoint host are as they
\* were before AssociatePublicIpAddress was called.
C11_WriteAfterConfirm ==
    (last.op \in ResolverOps /\ last.err # NoErr) =>
        /\ StatusOf(last.c) = last.pre.Status
        /\ clusters[last.c].Spec = last.pre.Spec

----------------------------------------------------------------------------
(* The Cluster Convergence Orchestrator: "ensure cluster networking" runs   *)
(* the resolvers in sequence, on cluster 1, against a platform that may fail *)

NetworkingSteps == <<"Network", "PublicIP", "LoadBalancerRule", "FirewallRule">>

\* The resolver operation each step of the pass calls.
StepRuns(step, cl, cld) ==
    CASE step = "Network" -> GetOrCreateNetwork(cl, cld)
      [] step = "PublicIP" -> AssociatePublicIpAddress(cl, cld)
      [] step = "LoadBalancerRule" -> GetOrCreateLoadBalancerRule(cl, cld)
      [] step = "FirewallRule" -> OpenFirewallRules(cl, cld)

\* A plausible slip: the pass goes on to the next step after a failed one.
StepContinuesAlways(err) == TRUE

\* The pass goes on to the next step only when this one returned no error.
StepContinues(err) == err = NoErr

\* The pass from its k-th step on; acc is the run up to that step.
RECURSIVE RunSteps(_, _)
RunSteps(k, acc) ==
    IF k > Len(NetworkingSteps) THEN {acc}
    ELSE UNION {
        LET acc2 == [cluster |-> r.cluster, cloud |-> r.cloud, err |-> r.err,
                     calls |-> acc.calls \o r.calls,
                     resps |-> acc.resps \o r.resps,
                     steps |-> Append(acc.steps, [step |-> NetworkingSteps[k],
                                                  err |-> r.err,
                                                  calls |-> r.calls])]
        IN  IF StepContinues(r.err) THEN RunSteps(k + 1, acc2) ELSE {acc2}
        : r \in StepRuns(NetworkingSteps[k], acc.cluster, acc.cloud) }

\* Every run of one "ensure cluster networking" pass against the platform cld.
EnsureClusterNetworking(cl, cld) ==
    RunSteps(1, [cluster |-> cl, cloud |-> cld, err |-> NoErr,
                 calls |-> <<>>, resps |-> <<>>, steps |-> <<>>])

\* The Trigger Service invokes a pass; the steps it ran are kept as last.arg.
EnsureClusterNetworkingPass ==
    /\ Len(createLog) < MaxCreateCalls
    /\ \E run \in EnsureClusterNetworking(clusters[1], cloud) :
        Returned("EnsureClusterNetworking", 1, run.steps, run)

\* Nothing is resolved yet; the platform holds some of what the cluster needs.
PassInit ==
    /\ \E nets \in InitNetworks, ips \in {<<>>, <<FreeIp1>>, <<AllocatedIn("id2"), FreeIp2>>},
          rules \in {<<>>, <<Rule7443>>}, port \in InitPorts :
        /\ clusters = [c \in ClusterIds |-> NewCluster("netA", "", port)]
        /\ cloud = [EmptyCloud EXCEPT !.networks = nets, !.publicIps = ips,
                                      !.lbRules = rules]
    /\ env = [faults |-> TRUE, lag |-> FALSE]
    /\ last = NoLast
    /\ createLog = <<>>
    /\ NoClusterWork
    /\ NoMachineWork

PassNext == EnsureClusterNetworkingPass

PassSpec == PassInit /\ [][PassNext]_vars

\* The steps the pass that returned last has run, in order.
StepsRun == last.arg

\* C18: a pass runs its steps in the order Network, Public IP, Load-Balancer
\* rule, Firewall rule; every step before the last one run returned no
\* error, so no step issues a remote call after an earlier step failed; the
\* pass returns the error of the last step run; and every pass, also one
\* that follows a failed pass, starts with the network lookup.
C18_StepsInOrder ==
    last.op = "EnsureClusterNetworking" =>
        /\ Len(StepsRun) \in 1..Len(NetworkingSteps)
        /\ \A i \in DOMAIN StepsRun : StepsRun[i].step = NetworkingSteps[i]
        /\ \A i \in 1..(Len(StepsRun) - 1) : StepsRun[i].err = NoErr
        /\ last.err = StepsRun[Len(StepsRun)].err
        /\ last.err = NoErr => Len(StepsRun) = Len(NetworkingSteps)
        /\ last.calls[1] = Call("GetNetworkID", last.pre.Spec.Network)
        /\ StepsRun[1].calls # <<>> /\ StepsRun[1].calls[1] = last.calls[1]

\* A pass failed at the load-balancer step; the next pass started again from
\* the network lookup and ran all four steps.
C18_Witness ==
    /\ last.op = "EnsureClusterNetworking"
    /\ last.prevOp = "EnsureClusterNetworking" /\ last.prevErr # NoErr
    /\ last.pre.Status.PublicIPID # "" /\ last.pre.Status.LBRuleID = ""
    /\ Len(StepsRun) = 4 /\ last.err = NoErr
    /\ last.calls[1].api = "GetNetworkID"

----------------------------------------------------------------------------
(* GetOrCreateNetwork on several clusters at once, one remote call per step,  *)
(* against a platform that answers every call and lists what it holds.        *)

CallGetNetworkID(c) ==
    /\ pc[c] = "idle"
    /\ \E r \in RespGetNetworkID(cloud, clusters[c].Spec.Network) :
        frame' = [frame EXCEPT ![c] = NameLookupOutcome(clusters[c], r)]
    /\ pc' = [pc EXCEPT ![c] = "GetNetworkByID"]
    /\ UNCHANGED <<clusters, cloud, env, last, createLog, machine, cks>>

CallGetNetworkByID(c) ==
    /\ pc[c] = "GetNetworkByID"
    /\ \E r \in RespGetNetworkByID(cloud, frame[c].networkID) :
        LET o == ByIDOutcome(clusters[c], frame[c], r)
        IN  /\ clusters' = [clusters EXCEPT ![c] = o.cluster]
            /\ frame' = [frame EXCEPT ![c].retErr = o.err]
            /\ pc' = [pc EXCEPT ![c] = IF AfterResolve(o.err) = "return"
                                       THEN "idle" ELSE "GetNetworkOfferingID"]
    /\ UNCHANGED <<cloud, env, last, createLog, machine, cks>>

CallGetNetworkOfferingID(c) ==
    /\ pc[c] = "GetNetworkOfferingID"
    /\ \E r \in RespGetNetworkOfferingID(cloud) :
        LET o == OfferingOutcome(r)
        IN  /\ frame' = [frame EXCEPT ![c].retErr = o.err]
            /\ pc' = [pc EXCEPT ![c] = IF o.create THEN "CreateNetwork" ELSE "idle"]
    /\ UNCHANGED <<clusters, cloud, env, last, createLog, machine, cks>>

CallCreateNetwork(c) ==
    /\ pc[c] = "CreateNetwork"
    /\ \E x \in RemoteCreateNetwork(cloud, clusters[c].Spec.Network) :
        LET o == CreateOutcome(clusters[c], x.resp)
        IN  /\ cloud' = x.cloud
            /\ clusters' = [clusters EXCEPT ![c] = o.cluster]
            /\ frame' = [frame EXCEPT ![c].retErr = o.err]
    /\ createLog' = Append(createLog, Call("CreateNetwork", clusters[c].Spec.Network))
    /\ pc' = [pc EXCEPT ![c] = "idle"]
    /\ UNCHANGED <<env, last, machine, cks>>

\* Every cluster names the same network; the platform holds it, or not yet.
ConcInit ==
    /\ \E nets \in InitNetworks, name \in InitNetworkNames :
        /\ clusters = [c \in ClusterIds |-> NewCluster(name, "", K8sDefaultAPIPort)]
        /\ cloud = [EmptyCloud EXCEPT !.networks = nets]
    /\ env = [faults |-> FALSE, lag |-> FALSE]
    /\ last = NoLast
    /\ createLog = <<>>
    /\ NoClusterWork
    /\ NoMachineWork

ConcNext ==
    \E c \in ClusterIds :
        \/ CallGetNetworkID(c)
        \/ CallGetNetworkByID(c)
        \/ CallGetNetworkOfferingID(c)
        \/ CallCreateNetwork(c)

ConcSpec == ConcInit /\ [][ConcNext]_vars

CreateCallsFor(name) ==
    Cardinality({i \in DOMAIN createLog : createLog[i].arg = name})

\* C10 (as claimed): passes that run concurrently for different clusters
\* naming the same network, interleaved at their remote calls, issue at most
\* one CreateNetwork call for a given network name.
C10_OneCreatePerName ==
    \A name \in InitNetworkNames : CreateCallsFor(name) <= 1

----------------------------------------------------------------------------
(* AssociatePublicIpAddress on several clusters at once, one remote call per *)
(* step.  No cluster names an endpoint host; each has its network resolved.  *)

\* ResolvePublicIPDetails, and the two writes that follow it.
CallListPublicIpAddresses(c) ==
    /\ pc[c] = "idle"
    /\ \E rp \in ResolvePublicIPDetails(clusters[c], cloud) :
        IF rp.err # NoErr
        THEN /\ frame' = [frame EXCEPT ![c].retErr = rp.err]
             /\ UNCHANGED <<clusters, pc>>
        ELSE LET cl2 == [clusters[c] EXCEPT
                            !.Spec.ControlPlaneEndpoint.Host = rp.ip.ipaddress,
                            !.Status.PublicIPID = rp.ip.id]
             IN  /\ clusters' = [clusters EXCEPT ![c] = cl2]
                 /\ frame' = [frame EXCEPT ![c].retErr = NoErr]
                 /\ pc' = [pc EXCEPT ![c] = IF AlreadyAssociated(rp.ip, cl2)
                                            THEN "idle" ELSE "AssociateIpAddress"]
    /\ UNCHANGED <<cloud, env, last, createLog, machine, cks>>

CallAssociateIpAddress(c) ==
    /\ pc[c] = "AssociateIpAddress"
    /\ \E x \in RemoteAssociateIpAddress(cloud, clusters[c].Status.NetworkID,
                                         clusters[c].Spec.ControlPlaneEndpoint.Host) :
        /\ cloud' = x.cloud
        /\ frame' = [frame EXCEPT ![c].retErr = x.resp.err]
    /\ pc' = [pc EXCEPT ![c] = "idle"]
    /\ UNCHANGED <<clusters, env, last, createLog, machine, cks>>

\* The resolved networks of the clusters: the same one, or one each.
InitClusterNetworks == {<<NetA1, NetA1>>, <<NetA1, NetA2>>}

IpConcInit ==
    /\ \E ips \in InitPublicIps, nets \in InitClusterNetworks :
        /\ clusters = [c \in ClusterIds |->
                        LET n == nets[IF c <= Len(nets) THEN c ELSE Len(nets)]
                        IN  [NewCluster("netA", "", K8sDefaultAPIPort) EXCEPT
                                !.Status.NetworkID = n.id,
                                !.Status.NetworkType = n.type]]
        /\ cloud = [EmptyCloud EXCEPT !.networks = <<NetA1, NetA2>>,
                                      !.publicIps = ips]
    /\ env = [faults |-> TRUE, lag |-> FALSE]
    /\ last = NoLast
    /\ createLog = <<>>
    /\ NoClusterWork
    /\ NoMachineWork

IpConcNext ==
    \E c \in ClusterIds :
        \/ CallListPublicIpAddresses(c)
        \/ CallAssociateIpAddress(c)

IpConcSpec == IpConcInit /\ [][IpConcNext]_vars

\* C28 (as claimed): two different clusters reconciled concurrently, neither
\* naming an endpoint host, never both record the same public IP identity in
\* Status.PublicIPID.
C28_DistinctPublicIPs ==
    \A c, d \in ClusterIds :
        (c # d /\ clusters[c].Status.PublicIPID # "") =>
            clusters[c].Status.PublicIPID # clusters[d].Status.PublicIPID

----------------------------------------------------------------------------
(* The CKS machine membership state machine and the state store *)

HasFinalizer(m) == MachineFinalizer \in m.finalizers

\* The calls made for the machine, in order: [call, ok].
Event(call, ok) == [call |-> call, ok |-> ok]

Happened(log, call, ok) == \E i \in DOMAIN log : log[i] = Event(call, ok)

\* A plausible slip: the store removes a record marked for deletion whatever
\* markers it carries.
StoreGateIgnoresMarker(m) ==
    IF m.deletionRequested THEN [m EXCEPT !.exists = FALSE] ELSE m

\* The state store's deletion gate: a record marked for deletion is removed
\* once it carries no cleanup-barrier marker, and not before.
StoreGate(m) ==
    IF m.deletionRequested /\ m.finalizers = {}
    THEN [m EXCEPT !.exists = FALSE] ELSE m

\* The instance states GetOrCreateVMInstance may report.
InstanceStates == {"Starting", "Running"}

\* A plausible slip: the machine is made Ready although AddVMToCksCluster failed.
AdvanceMachineReadyOnFailure(m, log, state, addOk) ==
    LET seen == [m EXCEPT !.instanceState = state]
    IN  IF state # "Running" THEN [machine |-> seen, log |-> log]
        ELSE IF ~m.syncWithACS \/ HasFinalizer(m)
        THEN [machine |-> [seen EXCEPT !.ready = TRUE], log |-> log]
        ELSE [machine |-> [seen EXCEPT
                            !.finalizers = IF addOk THEN @ \cup {MachineFinalizer} ELSE @,
                            !.ready = TRUE],
              log |-> Append(log, Event("AddVMToCksCluster", addOk))]

\* A plausible slip: after a failed AddVMToCksCluster the call is not made again.
AdvanceMachineGivesUp(m, log, state, addOk) ==
    LET seen == [m EXCEPT !.instanceState = state]
    IN  IF state # "Running" THEN [machine |-> seen, log |-> log]
        ELSE IF ~m.syncWithACS \/ HasFinalizer(m)
        THEN [machine |-> [seen EXCEPT !.ready = TRUE], log |-> log]
        ELSE IF Happened(log, "AddVMToCksCluster", FALSE)
        THEN [machine |-> seen, log |-> log]
        ELSE IF ~addOk
        THEN [machine |-> seen, log |-> Append(log, Event("AddVMToCksCluster", FALSE))]
        ELSE [machine |-> [seen EXCEPT !.finalizers = @ \cup {MachineFinalizer},
                                       !.ready = TRUE],
              log |-> Append(log, Event("AddVMToCksCluster", TRUE))]

\* A plausible slip: the synchronization flag is not consulted.
AdvanceMachineIgnoresFlag(m, log, state, addOk) ==
    LET seen == [m EXCEPT !.instanceState = state]
    IN  IF state # "Running" THEN [machine |-> seen, log |-> log]
        ELSE IF HasFinalizer(m)
        THEN [machine |-> [seen EXCEPT !.ready = TRUE], log |-> log]
        ELSE IF ~addOk
        THEN [machine |-> seen, log |-> Append(log, Event("AddVMToCksCluster", FALSE))]
        ELSE [machine |-> [seen EXCEPT !.finalizers = @ \cup {MachineFinalizer},
                                       !.ready = TRUE],
              log |-> Append(log, Event("AddVMToCksCluster", TRUE))]

\* A plausible slip: readiness follows the instance state seen by each pass.
AdvanceMachineTracksState(m, log, state, addOk) ==
    LET seen == [m EXCEPT !.instanceState = state]
    IN  IF state # "Running" THEN [machine |-> [seen EXCEPT !.ready = FALSE], log |-> log]
        ELSE IF ~m.syncWithACS \/ HasFinalizer(m)
        THEN [machine |-> [seen EXCEPT !.ready = TRUE], log |-> log]
        ELSE IF ~addOk
        THEN [machine |-> seen, log |-> Append(log, Event("AddVMToCksCluster", FALSE))]
        ELSE [machine |-> [seen EXCEPT !.finalizers = @ \cup {MachineFinalizer},
                                       !.ready = TRUE],
              log |-> Append(log, Event("AddVMToCksCluster", TRUE))]

\* One pass of "advance machine": the record and the calls after it.  `state`
\* is the instance state observed, addOk whether AddVMToCksCluster succeeds.
AdvanceMachine(m, log, state, addOk) ==
    LET seen == [m EXCEPT !.instanceState = state]
    IN  IF state # "Running" THEN [machine |-> seen, log |-> log]
        ELSE IF ~m.syncWithACS
        THEN [machine |-> [seen EXCEPT !.ready = TRUE], log |-> log]
        ELSE IF HasFinalizer(m)
        THEN [machine |-> [seen EXCEPT !.ready = TRUE], log |-> log]
        ELSE IF ~addOk
        THEN [machine |-> seen, log |-> Append(log, Event("AddVMToCksCluster", FALSE))]
        ELSE [machine |-> [seen EXCEPT !.finalizers = @ \cup {MachineFinalizer},
                                       !.ready = TRUE],
              log |-> Append(log, Event("AddVMToCksCluster", TRUE))]

\* A plausible slip: the instance is destroyed first, and the marker is
\* released whatever RemoveVMFromCksCluster returned.
RetireMachineDestroyFirst(m, log, removeOk, destroyOk) ==
    LET log1 == Append(log, Event("DestroyVMInstance", destroyOk))
        log2 == IF m.syncWithACS
                THEN Append(log1, Event("RemoveVMFromCksCluster", removeOk)) ELSE log1
    IN  IF ~destroyOk THEN [machine |-> m, log |-> log1]
        ELSE [machine |-> StoreGate([m EXCEPT !.finalizers = @ \ {MachineFinalizer}]),
              log |-> log2]

\* A plausible slip: the marker is released although DestroyVMInstance failed.
RetireMachineReleasesEarly(m, log, removeOk, destroyOk) ==
    LET log1 == IF m.syncWithACS
                THEN Append(log, Event("RemoveVMFromCksCluster", removeOk)) ELSE log
        log2 == Append(log1, Event("DestroyVMInstance", destroyOk))
    IN  IF m.syncWithACS /\ ~removeOk THEN [machine |-> m, log |-> log1]
        ELSE [machine |-> StoreGate([m EXCEPT !.finalizers = @ \ {MachineFinalizer}]),
              log |-> log2]

\* A plausible slip: the marker is not released after both calls succeeded.
RetireMachineKeepsMarker(m, log, removeOk, destroyOk) ==
    LET log1 == IF m.syncWithACS
                THEN Append(log, Event("RemoveVMFromCksCluster", removeOk)) ELSE log
        log2 == Append(log1, Event("DestroyVMInstance", destroyOk))
    IN  IF m.syncWithACS /\ ~removeOk THEN [machine |-> m, log |-> log1]
        ELSE [machine |-> m, log |-> log2]

\* A plausible slip: DestroyVMInstance is called although
\* RemoveVMFromCksCluster failed.
RetireMachineDestroysAnyway(m, log, removeOk, destroyOk) ==
    LET log1 == IF m.syncWithACS
                THEN Append(log, Event("RemoveVMFromCksCluster", removeOk)) ELSE log
        log2 == Append(log1, Event("DestroyVMInstance", destroyOk))
    IN  IF (m.syncWithACS /\ ~removeOk) \/ ~destroyOk THEN [machine |-> m, log |-> log2]
        ELSE [machine |-> StoreGate([m EXCEPT !.finalizers = @ \ {MachineFinalizer}]),
              log |-> log2]

\* One pass of "retire machine": RemoveVMFromCksCluster (when the cluster is
\* synchronized), then DestroyVMInstance, then the marker is released; a
\* failed call ends the pass.
RetireMachine(m, log, removeOk, destroyOk) ==
    LET log1 == IF m.syncWithACS
                THEN Append(log, Event("RemoveVMFromCksCluster", removeOk)) ELSE log
        log2 == Append(log1, Event("DestroyVMInstance", destroyOk))
    IN  IF m.syncWithACS /\ ~removeOk THEN [machine |-> m, log |-> log1]
        ELSE IF ~destroyOk THEN [machine |-> m, log |-> log2]
        ELSE [machine |-> StoreGate([m EXCEPT !.finalizers = @ \ {MachineFinalizer}]),
              log |-> log2]

\* The trigger service runs "advance machine" on a record not marked for deletion.
AdvancePass ==
    /\ machine.exists /\ ~machine.deletionRequested
    /\ cks.passes < MaxPasses
    /\ \E state \in InstanceStates, addOk \in BOOLEAN :
        LET o == AdvanceMachine(machine, cks.log, state, addOk)
        IN  /\ machine' = o.machine
            /\ cks' = [passes |-> cks.passes + 1, log |-> o.log]
    /\ UNCHANGED <<clusters, cloud, env, last, createLog, pc, frame>>

\* The owner deletes the machine: the store marks the record.
RequestDeletion ==
    /\ machine.exists /\ ~machine.deletionRequested
    /\ machine' = StoreGate([machine EXCEPT !.deletionRequested = TRUE])
    /\ UNCHANGED <<clusters, cloud, env, last, createLog, pc, frame, cks>>

\* The trigger service runs "retire machine" on a record marked for deletion.
RetirePass ==
    /\ machine.exists /\ machine.deletionRequested
    /\ cks.passes < MaxPasses
    /\ \E removeOk \in BOOLEAN, destroyOk \in BOOLEAN :
        LET o == RetireMachine(machine, cks.log, removeOk, destroyOk)
        IN  /\ machine' = o.machine
            /\ cks' = [passes |-> cks.passes + 1, log |-> o.log]
    /\ UNCHANGED <<clusters, cloud, env, last, createLog, pc, frame>>

\* The machine record as created, in a cluster that synchronizes with CKS or not.
MachineInit ==
    /\ \E sync \in BOOLEAN :
        machine = [NoMachine EXCEPT !.exists = TRUE, !.syncWithACS = sync]
    /\ cks = NoCks
    /\ clusters = [c \in ClusterIds |-> NewCluster("netA", "", K8sDefaultAPIPort)]
    /\ cloud = EmptyCloud
    /\ env = [faults |-> FALSE, lag |-> FALSE]
    /\ last = NoLast
    /\ createLog = <<>>
    /\ NoClusterWork

MachineNext ==
    \/ AdvancePass
    \/ RequestDeletion
    \/ RetirePass

MachineSpec == MachineInit /\ [][MachineNext]_vars

\* C1: with the synchronization flag enabled, every DestroyVMInstance call
\* issued for the machine comes after a RemoveVMFromCksCluster call that succeeded.
C1_RemoveBeforeDestroy ==
    machine.syncWithACS =>
        \A i \in DOMAIN cks.log :
            cks.log[i].call = "DestroyVMInstance" =>
                \E j \in 1..(i - 1) :
                    cks.log[j] = Event("RemoveVMFromCksCluster", TRUE)

\* A Ready machine was marked for deletion and its instance destroyed.
C1_Witness ==
    /\ machine.syncWithACS /\ machine.ready /\ machine.deletionRequested
    /\ Happened(cks.log, "DestroyVMInstance", TRUE)

\* C2: the cleanup-barrier marker, once attached, is gone only after both
\* RemoveVMFromCksCluster and DestroyVMInstance returned success, and the
\* record is in the store in every state where the marker is present.
C2_MarkerGatesRemoval ==
    /\ (Happened(cks.log, "AddVMToCksCluster", TRUE) /\ ~HasFinalizer(machine)) =>
            /\ Happened(cks.log, "RemoveVMFromCksCluster", TRUE)
            /\ Happened(cks.log, "DestroyVMInstance", TRUE)
    /\ HasFinalizer(machine) => machine.exists

\* The marker is held while a retire pass has failed at DestroyVMInstance.
C2_Witness ==
    /\ HasFinalizer(machine) /\ machine.deletionRequested /\ machine.exists
    /\ Happened(cks.log, "RemoveVMFromCksCluster", TRUE)
    /\ Happened(cks.log, "DestroyVMInstance", FALSE)

\* The calls this step adds to the log.
NewEvents == SubSeq(cks'.log, Len(cks.log) + 1, Len(cks'.log))

\* An AddVMToCksCluster call is made only with the flag enabled and the
\* instance seen Running, and its success attaches the marker.
AddOnlyWhenRunning ==
    \A i \in DOMAIN NewEvents :
        NewEvents[i].call = "AddVMToCksCluster" =>
            /\ machine.syncWithACS
            /\ machine'.instanceState = "Running"
            /\ NewEvents[i].ok => HasFinalizer(machine')

\* A Ready machine of a synchronized cluster carries the marker and was added.
ReadyIsMember ==
    (machine.exists /\ machine.syncWithACS /\ machine.ready) =>
        /\ HasFinalizer(machine)
        /\ Happened(cks.log, "AddVMToCksCluster", TRUE)

\* C13: AddVMToCksCluster is called only when the synchronization flag is
\* enabled and the instance state is Running; the marker is attached on its
\* success; and whenever the machine (flag enabled) is Ready, the marker is
\* present and an AddVMToCksCluster call has succeeded.
C13_ReadyOnlyAsMember == []ReadyIsMember /\ [][AddOnlyWhenRunning]_vars

\* The first AddVMToCksCluster failed, a later one succeeded: Ready, with the marker.
C13_Witness ==
    /\ machine.exists /\ machine.syncWithACS /\ machine.ready
    /\ HasFinalizer(machine)
    /\ Happened(cks.log, "AddVMToCksCluster", FALSE)
    /\ Happened(cks.log, "AddVMToCksCluster", TRUE)

\* The CKS membership calls in a log.
CksCalls(log) ==
    {i \in DOMAIN log : log[i].call \in {"AddVMToCksCluster", "RemoveVMFromCksCluster"}}

C17_ReadyNeverRevoked ==
    [][(machine.ready /\ ~machine.deletionRequested) => machine'.ready]_vars

\* A Ready member machine after a pass that saw the instance not Running.
C17_Witness ==
    /\ machine.exists /\ machine.ready /\ ~machine.deletionRequested
    /\ machine.instanceState = "Starting"
    /\ Happened(cks.log, "AddVMToCksCluster", TRUE)

\* The pass made the call and it failed.
FailedIn(call) == \E i \in DOMAIN NewEvents : NewEvents[i] = Event(call, FALSE)

\* What a pass with a failed call leaves behind.
FailedTransitionKeeps ==
    /\ FailedIn("RemoveVMFromCksCluster") =>
            /\ \A i \in DOMAIN NewEvents : NewEvents[i].call # "DestroyVMInstance"
            /\ machine' = machine
            /\ HasFinalizer(machine')
    /\ FailedIn("DestroyVMInstance") =>
            /\ machine' = machine
            /\ HasFinalizer(machine')
    /\ FailedIn("AddVMToCksCluster") =>
            /\ ~HasFinalizer(machine')
            /\ machine'.ready = machine.ready
            /\ ~machine'.ready

\* C27: a failed transition leaves the machine in its last-confirmed state.
\* A deletion pass in which RemoveVMFromCksCluster fails issues no
\* DestroyVMInstance call and keeps the marker; one in which
\* DestroyVMInstance fails keeps the marker; a pass in which
\* AddVMToCksCluster fails attaches no marker and does not set Ready.
C27_FailedTransitionKeepsState == [][FailedTransitionKeeps]_vars

\* RemoveVMFromCksCluster has failed: the marker is held and no
\* DestroyVMInstance call was made.
C27_Witness ==
    /\ machine.exists /\ machine.deletionRequested /\ HasFinalizer(machine)
    /\ Happened(cks.log, "RemoveVMFromCksCluster", FALSE)
    /\ \A i \in DOMAIN cks.log : cks.log[i].call # "DestroyVMInstance"

----------------------------------------------------------------------------
(* The machine state machine under a Trigger Service that keeps invoking   *)
(* passes, against a platform whose calls fail only finitely often: here   *)
(* cks.passes counts the passes the platform did not let succeed.          *)

AdvancePassLive ==
    /\ machine.exists /\ ~machine.deletionRequested
    /\ \E state \in InstanceStates, addOk \in BOOLEAN :
        LET setback == state # "Running" \/ ~addOk
            o == AdvanceMachine(machine, cks.log, state, addOk)
        IN  /\ setback => cks.passes < MaxPasses
            /\ machine' = o.machine
            /\ cks' = [passes |-> IF setback THEN cks.passes + 1 ELSE cks.passes,
                       log |-> o.log]
    /\ UNCHANGED <<clusters, cloud, env, last, createLog, pc, frame>>

RetirePassLive ==
    /\ machine.exists /\ machine.deletionRequested
    /\ \E removeOk \in BOOLEAN, destroyOk \in BOOLEAN :
        LET setback == ~removeOk \/ ~destroyOk
            o == RetireMachine(machine, cks.log, removeOk, destroyOk)
        IN  /\ setback => cks.passes < MaxPasses
            /\ machine' = o.machine
            /\ cks' = [passes |-> IF setback THEN cks.passes + 1 ELSE cks.passes,
                       log |-> o.log]
    /\ UNCHANGED <<clusters, cloud, env, last, createLog, pc, frame>>

MachineLiveNext ==
    \/ AdvancePassLive
    \/ RequestDeletion
    \/ RetirePassLive

\* The Trigger Service invokes a pass again and again while one has work to do.
MachineLiveSpec ==
    /\ MachineInit
    /\ [][MachineLiveNext]_vars
    /\ WF_vars(AdvancePassLive)
    /\ WF_vars(RetirePassLive)

\* A pass on a machine that is not yet a member, seeing the instance Running,
\* makes the AddVMToCksCluster call, whatever earlier passes got from it.
AddRetried ==
    (/\ machine.exists /\ machine.syncWithACS /\ ~HasFinalizer(machine)
     /\ ~machine.deletionRequested /\ ~machine'.deletionRequested
     /\ machine'.instanceState = "Running") =>
        /\ Len(NewEvents) = 1
        /\ NewEvents[1].call = "AddVMToCksCluster"

\* C14: with passes invoked again and again and AddVMToCksCluster failing
\* only finitely often, a machine whose instance was seen Running becomes
\* Ready (unless its owner deletes it first); and a pass that finds the
\* machine not yet added makes the AddVMToCksCluster call again.
C14_EventuallyReady ==
    /\ (machine.exists /\ machine.instanceState = "Running")
            ~> (machine.ready \/ machine.deletionRequested)
    /\ [][AddRetried]_vars

\* Two passes failed at AddVMToCksCluster, the third succeeded.
C14_Witness ==
    /\ machine.exists /\ machine.ready
    /\ cks.log = <<Event("AddVMToCksCluster", FALSE), Event("AddVMToCksCluster", FALSE),
                   Event("AddVMToCksCluster", TRUE)>>

\* The DestroyVMInstance calls that succeeded.
DestroySuccesses ==
    Cardinality({i \in DOMAIN cks.log : cks.log[i] = Event("DestroyVMInstance", TRUE)})

\* A Ready member machine that its owner has marked for deletion.
RetiringMember == machine.syncWithACS /\ machine.ready /\ machine.deletionRequested

====
